---- MODULE Spec2Model ----
(***************************************************************************)
(* Model of the Service Bus purge scripts                                  *)
(*   src/functions/scripts/purge.py      (DLQ or ACTIVE purge, --limit)    *)
(*   src/functions/scripts/purge_dlq.py  (DLQ purge only)                  *)
(*                                                                         *)
(* A run of a script is a process: module load, argument resolution,       *)
(* namespace_label, get_client, the two `with` blocks and the              *)
(* receive-and-delete loop.  The subscription's two queues (active and     *)
(* dead-letter) are shared by all runs.  Python strings are sequences of   *)
(* one-character strings so that split/strip/lower/startswith/replace are  *)
(* computed as the code computes them.                                     *)
(***************************************************************************)
EXTENDS Integers, Sequences, FiniteSets, TLC

(***************************************************************************)
(* Bounds of the model                                                     *)
(***************************************************************************)
MaxMsgs == 3
MaxBatch == 2
MaxLimit == 2
MaxPublish == 2

(***************************************************************************)
(* Python values                                                           *)
(***************************************************************************)
\* None where a str is expected (os.getenv of an unset variable, an absent
\* argparse option).  It is no sequence of characters.
None == <<"None">>

\* None where an int is expected (--limit not given); an int n is <<n>>.
NoInt == <<>>

\* bool(s) of a str-or-None value
Truthy(s) == s # None /\ s # <<>>

\* a or b
Or(a, b) == IF Truthy(a) THEN a ELSE b

\* bool(limit) of an int-or-None value: None and 0 are falsy
TruthyInt(l) == l # NoInt /\ l[1] # 0

Min(a, b) == IF a <= b THEN a ELSE b

(***************************************************************************)
(* str methods                                                             *)
(***************************************************************************)
\* the characters of U+0000..U+00FF that str.lower() changes, A-Z and the
\* capitals of Latin-1, and what it makes of them
Upper == <<"A","B","C","D","E","F","G","H","I","J","K","L","M",
           "N","O","P","Q","R","S","T","U","V","W","X","Y","Z",
           "À","Á","Â","Ã","Ä","Å","Æ","Ç","È","É","Ê","Ë","Ì",
           "Í","Î","Ï","Ð","Ñ","Ò","Ó","Ô","Õ","Ö","Ø","Ù","Ú",
           "Û","Ü","Ý","Þ">>

LowerLetters == <<"a","b","c","d","e","f","g","h","i","j","k","l","m",
                  "n","o","p","q","r","s","t","u","v","w","x","y","z",
                  "à","á","â","ã","ä","å","æ","ç","è","é","ê","ë","ì",
                  "í","î","ï","ð","ñ","ò","ó","ô","õ","ö","ø","ù","ú",
                  "û","ü","ý","þ">>

\* the characters of U+0000..U+00FF that str.strip() removes:
\* \t \n \x0b \f \r \x1c \x1d \x1e \x1f, space, \x85 and \xa0
Whitespace == {"\t", "\n", "", "\f", "\r", "", "", "", "", " ", "", " "}

\* the characters of U+0000..U+00FF that int() skips around a number: those
\* of str.strip() but \x1c \x1d \x1e \x1f
IntWhitespace == Whitespace \ {"", "", "", ""}

LowerChar(c) ==
    IF \E i \in 1..Len(Upper) : Upper[i] = c
    THEN LowerLetters[CHOOSE i \in 1..Len(Upper) : Upper[i] = c]
    ELSE c

\* s.lower()
Lower(s) == [i \in 1..Len(s) |-> LowerChar(s[i])]

\* s.startswith(prefix)
StartsWith(s, prefix) ==
    /\ Len(prefix) <= Len(s)
    /\ SubSeq(s, 1, Len(prefix)) = prefix

\* c in s, for a one-character c
Contains(s, c) == \E i \in 1..Len(s) : s[i] = c

\* s.find(c) + 1 for a one-character c that occurs in s
IndexOf(s, c) == CHOOSE i \in 1..Len(s) : s[i] = c /\ \A j \in 1..(i-1) : s[j] # c

\* s without the characters of chars at its two ends
StripOf(s, chars) ==
    LET keep == {i \in 1..Len(s) : s[i] \notin chars}
    IN  IF keep = {} THEN <<>>
        ELSE LET lo == CHOOSE i \in keep : \A j \in keep : i <= j
                 hi == CHOOSE i \in keep : \A j \in keep : j <= i
             IN  SubSeq(s, lo, hi)

\* s.strip()
Strip(s) == StripOf(s, Whitespace)

\* s.rstrip(c) for a one-character c
RStrip(s, c) ==
    LET keep == {i \in 1..Len(s) : s[i] # c}
    IN  IF keep = {} THEN <<>>
        ELSE SubSeq(s, 1, CHOOSE i \in keep : \A j \in keep : j <= i)

\* s.split(sep) for a one-character sep: the list of parts, empty ones kept
RECURSIVE Split(_, _)
Split(s, sep) ==
    IF ~Contains(s, sep) THEN <<s>>
    ELSE LET i == IndexOf(s, sep)
         IN  <<SubSeq(s, 1, i-1)>> \o Split(SubSeq(s, i+1, Len(s)), sep)

\* s.split(sep, 1)[1] for a one-character sep that occurs in s
AfterFirst(s, sep) == SubSeq(s, IndexOf(s, sep) + 1, Len(s))

\* s.replace(old, ""): every non-overlapping occurrence, left to right
RECURSIVE Remove(_, _)
Remove(s, old) ==
    IF s = <<>> THEN <<>>
    ELSE IF StartsWith(s, old) THEN Remove(SubSeq(s, Len(old) + 1, Len(s)), old)
    ELSE <<s[1]>> \o Remove(SubSeq(s, 2, Len(s)), old)

(***************************************************************************)
(* String literals of the scripts and the inputs of the model              *)
(***************************************************************************)
EndpointKey == <<"e","n","d","p","o","i","n","t","=">>

SbScheme == <<"s","b",":","/","/">>

ServiceBusSuffix == <<".","s","e","r","v","i","c","e","b","u","s",".",
                      "w","i","n","d","o","w","s",".","n","e","t">>

\* "Endpoint=sb://odw.sb.net/;SharedAccessKeyName=n;SharedAccessKey=k"
ConnStrGood ==
    <<"E","n","d","p","o","i","n","t","=","s","b",":","/","/",
      "o","d","w",".","s","b",".","n","e","t","/",";",
      "S","h","a","r","e","d","A","c","c","e","s","s","K","e","y",
      "N","a","m","e","=","n",";",
      "S","h","a","r","e","d","A","c","c","e","s","s","K","e","y","=","k">>

\* "SharedAccessKeyName=n; ENDPOINT= sb://pins.sb.net//;SharedAccessKey=k"
ConnStrAlt ==
    <<"S","h","a","r","e","d","A","c","c","e","s","s","K","e","y",
      "N","a","m","e","=","n",";",
      " ","E","N","D","P","O","I","N","T","="," ",
      "s","b",":","/","/","p","i","n","s",".","s","b",".","n","e","t","/","/",";",
      "S","h","a","r","e","d","A","c","c","e","s","s","K","e","y","=","k">>

\* "SharedAccessKeyName=n;SharedAccessKey=k": no Endpoint= segment
ConnStrNoEndpoint ==
    <<"S","h","a","r","e","d","A","c","c","e","s","s","K","e","y",
      "N","a","m","e","=","n",";",
      "S","h","a","r","e","d","A","c","c","e","s","s","K","e","y","=","k">>

\* "odw.sb.net"
NsFqdn == <<"o","d","w",".","s","b",".","n","e","t">>

\* " odw "
NsBare == <<" ","o","d","w"," ">>

\* " \f": a space and a form feed
NsBlank == <<" ","\f">>

TopicArg == <<"t","1">>

TopicEnv == <<"t","2">>

SubArg == <<"s","1">>

SubEnv == <<"s","2">>

ConnStrs == {None, ConnStrGood, ConnStrAlt, ConnStrNoEndpoint}

(***************************************************************************)
(* int(s) of a str: white space around, an optional sign, decimal digits   *)
(* with single underscores between them; anything else is a ValueError.    *)
(***************************************************************************)
Digits == <<"0","1","2","3","4","5","6","7","8","9">>

IsDigit(c) == \E i \in 1..Len(Digits) : Digits[i] = c

DigitValue(c) == (CHOOSE i \in 1..Len(Digits) : Digits[i] = c) - 1

\* digits, with underscores only between two digits
IsDecimal(s) ==
    /\ s # <<>>
    /\ \A i \in 1..Len(s) :
         \/ IsDigit(s[i])
         \/ /\ s[i] = "_"
            /\ 1 < i /\ i < Len(s)
            /\ IsDigit(s[i-1]) /\ IsDigit(s[i+1])

RECURSIVE DecimalValue(_)
DecimalValue(s) ==
    IF s = <<>> THEN 0
    ELSE LET front == SubSeq(s, 1, Len(s) - 1)
         IN  IF s[Len(s)] = "_" THEN DecimalValue(front)
             ELSE 10 * DecimalValue(front) + DigitValue(s[Len(s)])

\* the text of a one-digit integer, as a .env file or a shell would give it
IntText(n) == IF n < 0 THEN <<"-", Digits[1 - n]>> ELSE <<Digits[n + 1]>>

(***************************************************************************)
(* Pure functions of the scripts.  A call either returns a value or raises *)
(* an exception: [ok |-> TRUE, val |-> v] or [ok |-> FALSE, exc |-> e].     *)
(***************************************************************************)
Return(v) == [ok |-> TRUE, val |-> v, exc |-> "none"]

Raise(e) == [ok |-> FALSE, val |-> <<>>, exc |-> e]

\* int(s): <<n>> or ValueError
int(s) ==
    LET t      == StripOf(s, IntWhitespace)
        signed == t # <<>> /\ t[1] \in {"+", "-"}
        body   == IF signed THEN Tail(t) ELSE t
    IN  IF ~IsDecimal(body) THEN Raise("ValueError")
        ELSE IF t[1] = "-" THEN Return(<<-DecimalValue(body)>>)
        ELSE Return(<<DecimalValue(body)>>)

\* the test taking any key=value part for the endpoint
IsAnyKeyPart(part) == Contains(part, "=")

\* the test of the loop body: part.strip().lower().startswith("endpoint=")
IsEndpointPart(part) == StartsWith(Lower(Strip(part)), EndpointKey)

\* extract_namespace_from_connstr: the first Endpoint= part of the string,
\* without the sb:// scheme and trailing slashes, up to its first dot.
extract_namespace_from_connstr(conn_str) ==
    LET parts == Split(conn_str, ";")
        hits  == {i \in 1..Len(parts) : IsEndpointPart(parts[i])}
    IN  IF hits = {} THEN Raise("ValueError")
        ELSE LET part     == parts[CHOOSE i \in hits : \A j \in hits : i <= j]
                 endpoint == Strip(AfterFirst(part, "="))
                 stripped == RStrip(Remove(endpoint, SbScheme), "/")
             IN  Return(Split(stripped, ".")[1])

\* to_fqdn: the namespace as a fully qualified domain name
to_fqdn(namespace) ==
    LET ns == Strip(Or(namespace, <<>>))
    IN  IF ~Truthy(ns) THEN Raise("SystemExit:namespace")
        ELSE IF Contains(ns, ".") THEN Return(ns)
        ELSE Return(ns \o ServiceBusSuffix)

\* namespace_label: the label printed in the log lines
namespace_label(conn_str, namespace_fqdn) ==
    IF Truthy(conn_str) THEN extract_namespace_from_connstr(conn_str)
    ELSE LET fqdn == to_fqdn(Or(namespace_fqdn, <<>>))
         IN  IF fqdn.ok THEN Return(Split(fqdn.val, ".")[1]) ELSE fqdn

(***************************************************************************)
(* Program constants                                                       *)
(***************************************************************************)
\* int(os.getenv("DLQ_BATCH", "1000"))
DefaultBatch == 1000

\* int(os.getenv("DLQ_WAIT", "5"))
DefaultWait == 5

\* purge_dlq.py prints a progress line only when total % 100 == 0
ProgressModulus == 100

(***************************************************************************)
(* State                                                                   *)
(***************************************************************************)
VARIABLES
    environ,    \* the process environment after load_dotenv(): .env and shell
    installed,  \* TRUE iff the azure-identity package can be imported
    queue,      \* messages held by the subscription: [ACTIVE, DEAD_LETTER]
    published,  \* messages published by other parties since Init
    proc        \* the runs of the scripts

vars == <<environ, installed, queue, published, proc>>

Procs == {"p1", "p2"}

SubQueues == {"ACTIVE", "DEAD_LETTER"}

Ints(lo, hi) == {<<n>> : n \in lo..hi}

\* a printed line: its kind, the count it reports, the name it reports
Line(kind, n, s) == [line |-> kind, n |-> n, s |-> s]

\* A run that has not started: nothing loaded, nothing opened.
IdleProc(script, argv) ==
    [ script       |-> script,
      argv         |-> argv,
      pc           |-> "idle",
      topic        |-> None,
      subscription |-> None,
      sub_queue    |-> "none",
      limit        |-> NoInt,
      ns           |-> None,
      auth         |-> "none",
      fqdn_used    |-> FALSE,
      credentials  |-> <<>>,
      client       |-> "none",
      receiver     |-> "none",
      total        |-> 0,
      msgs         |-> 0,
      calls        |-> <<>>,
      stop         |-> "none",
      exc          |-> "none",
      out          |-> <<>>,
      q0           |-> [q \in SubQueues |-> 0] ]

NoArgs == [topic |-> None, subscription |-> None, active |-> FALSE, limit |-> NoInt]

\* Invocations that vary the configuration (connection string, namespace,
\* topic, subscription, identity package, script and mode) over one message
\* in each queue, batch size 1 and no limit.
ConfigInputs ==
    { [environ |-> e, installed |-> inst, queue |-> [q \in SubQueues |-> 1],
       script |-> script, argv |-> argv] :
        e \in [ SERVICE_BUS_CONNECTION_STR : ConnStrs,
                SERVICE_BUS_NAMESPACE_FQDN : {None, NsFqdn},
                SERVICE_BUS_NAMESPACE      : {None, NsBare, NsBlank},
                SERVICE_BUS_TOPIC          : {None, TopicEnv},
                SERVICE_BUS_SUBSCRIPTION   : {None, SubEnv},
                DLQ_BATCH                  : {IntText(1)},
                DLQ_WAIT                   : {None} ],
        inst \in BOOLEAN,
        script \in {"purge", "purge_dlq"},
        argv \in [ topic        : {None, TopicArg},
                   subscription : {None, SubArg},
                   active       : BOOLEAN,
                   limit        : {NoInt} ] }

\* Invocations that vary the drain (script and mode, limit, batch size,
\* queue contents) over a complete configuration, SAS or identity.
DrainInputs ==
    { [environ |-> e, installed |-> TRUE, queue |-> qs,
       script |-> script, argv |-> argv] :
        e \in [ SERVICE_BUS_CONNECTION_STR : {None, ConnStrGood},
                SERVICE_BUS_NAMESPACE_FQDN : {NsFqdn},
                SERVICE_BUS_NAMESPACE      : {None},
                SERVICE_BUS_TOPIC          : {TopicEnv},
                SERVICE_BUS_SUBSCRIPTION   : {SubEnv},
                DLQ_BATCH                  : {None} \cup {IntText(n) : n \in -1..MaxBatch},
                DLQ_WAIT                   : {None} ],
        qs \in [SubQueues -> 0..MaxMsgs],
        script \in {"purge", "purge_dlq"},
        argv \in [ topic        : {None},
                   subscription : {None},
                   active       : BOOLEAN,
                   limit        : {NoInt} \cup Ints(-1, MaxLimit) ] }

\* texts of DLQ_BATCH and DLQ_WAIT: integers written in the ways int()
\* accepts, and texts it rejects
BatchTexts ==
    { <<"1">>, <<" ", "+", "1", "\n">>, <<"0", "_", "2">>,
      <<>>, <<"a", "b", "c">>, <<"1", "_">>, <<"1", ".", "5">> }

WaitTexts == { None, <<"5">>, <<"0">>, <<"-", "1">>, <<>>, <<"5", "s">> }

\* Invocations that vary the two integers of the configuration over a
\* complete SAS configuration and one message in each queue.
LoadInputs ==
    { [environ |-> e, installed |-> inst, queue |-> [q \in SubQueues |-> 1],
       script |-> script, argv |-> argv] :
        e \in [ SERVICE_BUS_CONNECTION_STR : {ConnStrGood},
                SERVICE_BUS_NAMESPACE_FQDN : {NsFqdn},
                SERVICE_BUS_NAMESPACE      : {None},
                SERVICE_BUS_TOPIC          : {TopicEnv},
                SERVICE_BUS_SUBSCRIPTION   : {SubEnv},
                DLQ_BATCH                  : BatchTexts,
                DLQ_WAIT                   : WaitTexts ],
        inst \in BOOLEAN,
        script \in {"purge", "purge_dlq"},
        argv \in [ topic        : {None},
                   subscription : {None},
                   active       : BOOLEAN,
                   limit        : {NoInt} ] }

\* purge_dlq.py parses no arguments
Inputs == { i \in ConfigInputs \cup DrainInputs \cup LoadInputs :
              i.script = "purge_dlq" => i.argv = NoArgs }

Init ==
    /\ published = 0
    /\ \E i \in Inputs :
         /\ environ = i.environ
         /\ installed = i.installed
         /\ queue = i.queue
         /\ proc = [p \in Procs |->
                      IF p = "p1"
                      THEN [IdleProc(i.script, i.argv) EXCEPT !.pc = "load",
                                                              !.q0 = i.queue]
                      ELSE IdleProc(i.script, i.argv)]

\* the run p becomes r; everything else is left alone
Becomes(p, r) ==
    /\ proc' = [proc EXCEPT ![p] = r]
    /\ UNCHANGED <<environ, installed, queue, published>>

\* an exception leaves the script: the run ends with a traceback or message
Fails(p, r, e) == Becomes(p, [r EXCEPT !.pc = "failed", !.exc = e])

(***************************************************************************)
(* Module load: the imports and the module-level configuration             *)
(*   purge.py      lines 53-67                                             *)
(*   purge_dlq.py  lines 45-69                                             *)
(***************************************************************************)
\* The module globals.  They are assigned once, when the module is loaded,
\* from an environment that no run changes.
SERVICE_BUS_CONNECTION_STR == environ.SERVICE_BUS_CONNECTION_STR

SERVICE_BUS_NAMESPACE_FQDN ==
    Or(environ.SERVICE_BUS_NAMESPACE_FQDN, environ.SERVICE_BUS_NAMESPACE)

ENV_TOPIC == environ.SERVICE_BUS_TOPIC

ENV_SUBSCRIPTION == environ.SERVICE_BUS_SUBSCRIPTION

\* int(os.getenv(name, default)) for a default that is the text of an
\* integer: what int() makes of the variable when it is set
IntOfEnv(name, default) ==
    IF environ[name] = None THEN Return(<<default>>) ELSE int(environ[name])

\* The two integers of the configuration.  When int() raises, the module is
\* not loaded and the name is never read: it stands for 0 then.
BATCH_SIZE ==
    LET v == IntOfEnv("DLQ_BATCH", DefaultBatch) IN IF v.ok THEN v.val[1] ELSE 0

WAIT_SECONDS ==
    LET v == IntOfEnv("DLQ_WAIT", DefaultWait) IN IF v.ok THEN v.val[1] ELSE 0

\* BATCH_SIZE and WAIT_SECONDS are assigned: neither int() raises
IntsLoaded == IntOfEnv("DLQ_BATCH", DefaultBatch).ok /\ IntOfEnv("DLQ_WAIT", DefaultWait).ok

\* purge_dlq.py only: FALSE when the import of azure.identity raised
USE_AAD == installed

\* purge.py imports azure.identity unconditionally: without the package the
\* import raises and nothing else of the script runs.
LoadPurge(p) ==
    /\ proc[p].pc = "load"
    /\ proc[p].script = "purge"
    /\ IF ~installed THEN Fails(p, proc[p], "ImportError")
       ELSE IF ~IntsLoaded THEN Fails(p, proc[p], "ValueError")
       ELSE Becomes(p, [proc[p] EXCEPT !.pc = "main"])

\* purge_dlq.py guards the import (USE_AAD) and checks topic and
\* subscription at module level, before purge_dlq() is called.
LoadPurgeDlq(p) ==
    /\ proc[p].pc = "load"
    /\ proc[p].script = "purge_dlq"
    /\ LET r == proc[p]
       IN  IF ~IntsLoaded THEN Fails(p, r, "ValueError")
           ELSE IF ~Truthy(ENV_TOPIC) THEN Fails(p, r, "SystemExit:topic")
           ELSE IF ~Truthy(ENV_SUBSCRIPTION) THEN Fails(p, r, "SystemExit:subscription")
           ELSE Becomes(p, [r EXCEPT !.topic        = ENV_TOPIC,
                                     !.subscription = ENV_SUBSCRIPTION,
                                     !.sub_queue    = "DEAD_LETTER",
                                     !.pc           = "purge"])

(***************************************************************************)
(* purge.py __main__ (lines 195-209): resolve topic and subscription, then *)
(* call purge_active(topic, subscription, limit=args.limit) or             *)
(* purge_dlq(topic, subscription).                                         *)
(***************************************************************************)
\* __main__ without the two checks
MainUnchecked(p) ==
    /\ proc[p].pc = "main"
    /\ LET r == proc[p]
       IN  Becomes(p, [r EXCEPT
               !.topic        = Or(r.argv.topic, ENV_TOPIC),
               !.subscription = Or(r.argv.subscription, ENV_SUBSCRIPTION),
               !.sub_queue    = IF r.argv.active THEN "ACTIVE" ELSE "DEAD_LETTER",
               !.limit        = IF r.argv.active THEN r.argv.limit ELSE NoInt,
               !.pc           = "purge"])

\* __main__ draining the active queue whatever the mode
MainActiveByDefault(p) ==
    /\ proc[p].pc = "main"
    /\ LET r            == proc[p]
           topic        == Or(r.argv.topic, ENV_TOPIC)
           subscription == Or(r.argv.subscription, ENV_SUBSCRIPTION)
       IN  IF ~Truthy(topic) THEN Fails(p, r, "SystemExit:topic")
           ELSE IF ~Truthy(subscription) THEN Fails(p, r, "SystemExit:subscription")
           ELSE Becomes(p, [r EXCEPT
                    !.topic        = topic,
                    !.subscription = subscription,
                    !.sub_queue    = "ACTIVE",
                    !.limit        = IF r.argv.active THEN r.argv.limit ELSE NoInt,
                    !.pc           = "purge"])

Main(p) ==
    /\ proc[p].pc = "main"
    /\ LET r            == proc[p]
           topic        == Or(r.argv.topic, ENV_TOPIC)
           subscription == Or(r.argv.subscription, ENV_SUBSCRIPTION)
       IN  IF ~Truthy(topic) THEN Fails(p, r, "SystemExit:topic")
           ELSE IF ~Truthy(subscription) THEN Fails(p, r, "SystemExit:subscription")
           ELSE Becomes(p, [r EXCEPT
                    !.topic        = topic,
                    !.subscription = subscription,
                    !.sub_queue    = IF r.argv.active THEN "ACTIVE" ELSE "DEAD_LETTER",
                    !.limit        = IF r.argv.active THEN r.argv.limit ELSE NoInt,
                    !.pc           = "purge"])

(***************************************************************************)
(* Entry of purge_dlq / purge_active: ns = namespace_label() and the       *)
(* announcement lines (purge.py 108-109, 137-140; purge_dlq.py 119-121).   *)
(***************************************************************************)
Announce(p) ==
    /\ proc[p].pc = "purge"
    /\ LET r     == proc[p]
           label == namespace_label(SERVICE_BUS_CONNECTION_STR,
                                    SERVICE_BUS_NAMESPACE_FQDN)
           r1    == [r EXCEPT !.fqdn_used = ~Truthy(SERVICE_BUS_CONNECTION_STR)]
           lines == (IF r.script = "purge_dlq"
                     THEN <<Line("connecting", 0, label.val), Line("purging", 0, <<>>)>>
                     ELSE <<Line("purging", 0, label.val)>>) \o
                    (IF r.sub_queue = "ACTIVE" /\ TruthyInt(r.limit)
                     THEN <<Line("limit", r.limit[1], <<>>)>> ELSE <<>>)
       IN  IF ~label.ok THEN Fails(p, r1, label.exc)
           ELSE Becomes(p, [r1 EXCEPT !.ns  = label.val,
                                      !.out = r.out \o lines,
                                      !.pc  = "get_client"])

(***************************************************************************)
(* get_client (purge.py 86-97, purge_dlq.py 90-110).  Whether the bus      *)
(* library accepts the connection string and whether a credential can be   *)
(* built are outcomes of the environment.                                  *)
(***************************************************************************)
\* the SAS branch, the same in both scripts
GetClientSas(p, accepted) ==
    LET r  == proc[p]
        ns == extract_namespace_from_connstr(SERVICE_BUS_CONNECTION_STR)
    IN  IF ~ns.ok THEN Fails(p, r, ns.exc)
        ELSE LET r1 == [r EXCEPT !.auth = "SAS",
                                 !.out  = r.out \o <<Line("auth:SAS", 0, ns.val)>>]
             IN  IF ~accepted THEN Fails(p, r1, "ValueError")
                 ELSE Becomes(p, [r1 EXCEPT !.client = "constructed",
                                            !.pc     = "with_client"])

\* purge.py: DefaultAzureCredential only, no fallback
GetClientAadPurge(p, default_ok) ==
    LET r    == [proc[p] EXCEPT !.fqdn_used = TRUE]
        fqdn == to_fqdn(Or(SERVICE_BUS_NAMESPACE_FQDN, <<>>))
        r1   == [r EXCEPT !.credentials = <<"DefaultAzureCredential">>]
    IN  IF ~fqdn.ok THEN Fails(p, r, fqdn.exc)
        ELSE IF ~default_ok THEN Fails(p, r1, "CredentialError")
        ELSE Becomes(p, [r1 EXCEPT
                 !.auth   = "AAD:DefaultAzureCredential",
                 !.out    = r.out \o <<Line("auth:DefaultAzureCredential", 0, fqdn.val)>>,
                 !.client = "constructed",
                 !.pc     = "with_client"])

\* purge_dlq.py: USE_AAD is required; any exception of the first attempt
\* falls back to InteractiveBrowserCredential
GetClientAadPurgeDlq(p, default_ok, interactive_ok) ==
    LET r    == proc[p]
        r0   == [r EXCEPT !.fqdn_used = TRUE]
        fqdn == to_fqdn(Or(SERVICE_BUS_NAMESPACE_FQDN, <<>>))
        r1   == [r0 EXCEPT !.credentials = <<"DefaultAzureCredential">>]
        r2   == [r0 EXCEPT !.credentials = <<"DefaultAzureCredential",
                                             "InteractiveBrowserCredential">>]
    IN  IF ~USE_AAD THEN Fails(p, r, "SystemExit:identity")
        ELSE IF ~fqdn.ok THEN Fails(p, r0, fqdn.exc)
        ELSE IF default_ok
        THEN Becomes(p, [r1 EXCEPT
                 !.auth   = "AAD:DefaultAzureCredential",
                 !.out    = r.out \o <<Line("auth:DefaultAzureCredential", 0, fqdn.val)>>,
                 !.client = "constructed",
                 !.pc     = "with_client"])
        ELSE IF interactive_ok
        THEN Becomes(p, [r2 EXCEPT
                 !.auth   = "AAD:InteractiveBrowserCredential",
                 !.out    = r.out \o <<Line("auth:InteractiveBrowserCredential", 0, fqdn.val)>>,
                 !.client = "constructed",
                 !.pc     = "with_client"])
        ELSE Fails(p, r2, "CredentialError")

\* get_client preferring the identity path whenever a namespace is set
get_client_namespace_first(p, accepted, default_ok, interactive_ok) ==
    IF Truthy(SERVICE_BUS_CONNECTION_STR) /\ ~Truthy(SERVICE_BUS_NAMESPACE_FQDN)
    THEN GetClientSas(p, accepted)
    ELSE IF proc[p].script = "purge" THEN GetClientAadPurge(p, default_ok)
    ELSE GetClientAadPurgeDlq(p, default_ok, interactive_ok)

get_client(p, accepted, default_ok, interactive_ok) ==
    IF Truthy(SERVICE_BUS_CONNECTION_STR) THEN GetClientSas(p, accepted)
    ELSE IF proc[p].script = "purge" THEN GetClientAadPurge(p, default_ok)
    ELSE GetClientAadPurgeDlq(p, default_ok, interactive_ok)

GetClient(p) ==
    /\ proc[p].pc = "get_client"
    /\ \E accepted \in BOOLEAN, default_ok \in BOOLEAN, interactive_ok \in BOOLEAN :
         get_client(p, accepted, default_ok, interactive_ok)

(***************************************************************************)
(* `with client:` and client.get_subscription_receiver(...): the client is *)
(* entered and the receiver object is built; nothing is sent yet.          *)
(***************************************************************************)
WithClient(p) ==
    /\ proc[p].pc = "with_client"
    /\ Becomes(p, [proc[p] EXCEPT !.client   = "open",
                                  !.receiver = "constructed",
                                  !.pc       = "with_receiver"])

(***************************************************************************)
(* `with receiver:` opens the link to the subscription's queue.  It may    *)
(* fail (network, authorisation, unknown entity); the exception then       *)
(* leaves through the client's `with` block.                               *)
(***************************************************************************)
WithReceiver(p) ==
    /\ proc[p].pc = "with_receiver"
    /\ \E opened \in BOOLEAN :
         IF opened
         THEN Becomes(p, [proc[p] EXCEPT !.receiver = "open", !.pc = "loop"])
         ELSE Becomes(p, [proc[p] EXCEPT !.exc = "ServiceBusError",
                                         !.pc  = "exit_client"])

(***************************************************************************)
(* The receive-and-delete loops                                            *)
(***************************************************************************)
\* receiver.receive_messages(max_message_count, max_wait_time) in
\* RECEIVE_AND_DELETE mode on sub-queue q: the messages the queue holds
\* within the wait window, at most max_message_count of them, are returned
\* and are gone from the queue.  The bus library rejects a count that is not
\* positive, and a wait that is not positive (ValueError); the service or
\* the network may fail the call.
receive_messages(q, max_message_count, max_wait_time, delivered) ==
    IF max_wait_time <= 0 \/ max_message_count <= 0 THEN Raise("ValueError")
    ELSE IF ~delivered THEN Raise("ServiceBusError")
    ELSE Return(Min(max_message_count, queue[q]))

\* the exit test off by one: `if limit and total > limit`
LimitReachedStrict(limit, total) == TruthyInt(limit) /\ total > limit[1]

\* the loop's exit test of purge_active: `if limit and total >= limit`
LimitReached(limit, total) == TruthyInt(limit) /\ total >= limit[1]

\* BatchFor without the limit: every request asks for BATCH_SIZE
BatchForUnlimited(limit, total) == BATCH_SIZE

\* the request size of purge_active:
\*   batch = BATCH_SIZE if not limit else min(BATCH_SIZE, limit - total)
BatchFor(limit, total) ==
    IF ~TruthyInt(limit) THEN BATCH_SIZE ELSE Min(BATCH_SIZE, limit[1] - total)

\* the progress line of a counted batch: purge.py prints every batch,
\* purge_dlq.py only a total that is a multiple of 100
Progress(script, total) ==
    IF script = "purge" \/ total % ProgressModulus = 0
    THEN <<Line("progress", total, <<>>)>>
    ELSE <<>>

\* the loop going on where it should be left: `continue` for `break`
BreakNever(p, r, why) ==
    Becomes(p, [r EXCEPT !.pc = "loop"])

\* A break: the loop is left without an exception.
Break(p, r, why) ==
    Becomes(p, [r EXCEPT !.stop = why, !.pc = "exit_receiver"])

\* the call swallowing its exception, for the loop to try again
ReceiveRetry(p, max_message_count, delivered) ==
    LET r    == proc[p]
        msgs == receive_messages(r.sub_queue, max_message_count, WAIT_SECONDS, delivered)
        call == [req |-> max_message_count,
                 got |-> IF msgs.ok THEN msgs.val ELSE 0,
                 ok  |-> msgs.ok]
        r1   == [r EXCEPT !.calls = Append(r.calls, call)]
    IN  IF ~msgs.ok
        THEN Becomes(p, r1)
        ELSE /\ proc' = [proc EXCEPT ![p] = [r1 EXCEPT !.msgs = msgs.val,
                                                       !.pc   = "received"]]
             /\ queue' = [queue EXCEPT ![r.sub_queue] = queue[r.sub_queue] - msgs.val]
             /\ UNCHANGED <<environ, installed, published>>

\* msgs = receiver.receive_messages(max_message_count=..., max_wait_time=
\* WAIT_SECONDS) (purge.py 123-126 and 160-163, purge_dlq.py 136-139).  When
\* the call returns, the messages it returns are gone from the queue and the
\* loop has not counted them yet; when it raises, the exception leaves the
\* loop through the `with` blocks.
Receive(p, max_message_count, delivered) ==
    LET r    == proc[p]
        msgs == receive_messages(r.sub_queue, max_message_count, WAIT_SECONDS, delivered)
        call == [req |-> max_message_count,
                 got |-> IF msgs.ok THEN msgs.val ELSE 0,
                 ok  |-> msgs.ok]
        r1   == [r EXCEPT !.calls = Append(r.calls, call)]
    IN  IF ~msgs.ok
        THEN Becomes(p, [r1 EXCEPT !.exc = msgs.exc, !.pc = "exit_receiver"])
        ELSE /\ proc' = [proc EXCEPT ![p] = [r1 EXCEPT !.msgs = msgs.val,
                                                       !.pc   = "received"]]
             /\ queue' = [queue EXCEPT ![r.sub_queue] = queue[r.sub_queue] - msgs.val]
             /\ UNCHANGED <<environ, installed, published>>

\* the loop counting a batch before it looks at it, and leaving on a batch
\* that is not full
CountShort(p) ==
    /\ proc[p].pc = "received"
    /\ LET r   == proc[p]
           req == r.calls[Len(r.calls)].req
       IN  Becomes(p, [r EXCEPT !.total = r.total + r.msgs,
                                !.stop  = IF r.msgs < req THEN "Exhausted" ELSE r.stop,
                                !.pc    = IF r.msgs < req THEN "exit_receiver" ELSE "loop"])

\* the loop counting what it asked for instead of what it was given
CountRequested(p) ==
    /\ proc[p].pc = "received"
    /\ LET r   == proc[p]
           req == r.calls[Len(r.calls)].req
       IN  IF r.msgs = 0 THEN Break(p, r, "Exhausted")
           ELSE Becomes(p, [r EXCEPT !.total = r.total + req,
                                     !.out   = r.out \o Progress(r.script, r.total + req),
                                     !.pc    = "loop"])

\* What the loop does with the batch a receive call returned (purge.py
\* 127-130 and 164-168, purge_dlq.py 140-145): `if not msgs: break`, else
\* total += len(msgs) and the progress line, and the next iteration.
Count(p) ==
    /\ proc[p].pc = "received"
    /\ LET r == proc[p]
       IN  IF r.msgs = 0 THEN Break(p, r, "Exhausted")
           ELSE Becomes(p, [r EXCEPT !.total = r.total + r.msgs,
                                     !.out   = r.out \o Progress(r.script, r.total + r.msgs),
                                     !.pc    = "loop"])

\* purge_dlq honouring --limit the way purge_active does
PurgeDlqStepLimited(p) ==
    /\ proc[p].pc = "loop"
    /\ proc[p].sub_queue = "DEAD_LETTER"
    /\ LET r     == proc[p]
           limit == r.argv.limit
           batch == IF ~TruthyInt(limit) THEN BATCH_SIZE
                    ELSE Min(BATCH_SIZE, limit[1] - r.total)
       IN  IF TruthyInt(limit) /\ r.total >= limit[1] THEN Break(p, r, "LimitReached")
           ELSE \E delivered \in BOOLEAN : Receive(p, batch, delivered)

\* The head of an iteration of the loop of purge_dlq (purge.py 122-126,
\* purge_dlq.py 135-139): the receive call, always for BATCH_SIZE.
PurgeDlqStep(p) ==
    /\ proc[p].pc = "loop"
    /\ proc[p].sub_queue = "DEAD_LETTER"
    /\ \E batch \in {BATCH_SIZE}, delivered \in BOOLEAN :
         Receive(p, batch, delivered)

\* The head of an iteration of the loop of purge_active (purge.py 152-163):
\* the two tests that leave the loop, and the receive call.
PurgeActiveStep(p) ==
    /\ proc[p].pc = "loop"
    /\ proc[p].sub_queue = "ACTIVE"
    /\ LET r == proc[p]
       IN  IF LimitReached(r.limit, r.total) THEN Break(p, r, "LimitReached")
           ELSE \E batch \in {BatchFor(r.limit, r.total)} :
                  IF batch <= 0 THEN Break(p, r, "BatchNotPositive")
                  ELSE \E delivered \in BOOLEAN : Receive(p, batch, delivered)

(***************************************************************************)
(* Leaving the `with` blocks and the summary line                          *)
(***************************************************************************)
\* receiver.__exit__: the receiver is closed, with or without an exception
ExitReceiver(p) ==
    /\ proc[p].pc = "exit_receiver"
    /\ Becomes(p, [proc[p] EXCEPT !.receiver = "closed", !.pc = "exit_client"])

\* the client closed by a plain client.close() after the block, which an
\* exception skips
ExitClientNoFinally(p) ==
    /\ proc[p].pc = "exit_client"
    /\ IF proc[p].exc = "none"
       THEN Becomes(p, [proc[p] EXCEPT !.client = "closed", !.receiver = "closed",
                                       !.pc = "summary"])
       ELSE Becomes(p, [proc[p] EXCEPT !.pc = "failed"])

\* client.__exit__: the client and the receivers it made are closed; a
\* pending exception then leaves the script, otherwise the function goes on
ExitClient(p) ==
    /\ proc[p].pc = "exit_client"
    /\ Becomes(p, [proc[p] EXCEPT
                     !.client   = "closed",
                     !.receiver = "closed",
                     !.pc       = IF proc[p].exc = "none" THEN "summary" ELSE "failed"])

\* The last line of a run: purge.py prints the count only ("DONE: Deleted
\* {total} DLQ messages.", "DONE: Deleted {total} ACTIVE messages."),
\* purge_dlq.py the count and the namespace ("Finished. Deleted {total} DLQ
\* messages from {namespace}/...").
SummaryLine(r) ==
    IF r.script = "purge_dlq"
    THEN <<Line("summary", r.total, r.ns)>>
    ELSE <<Line("summary", r.total, <<>>)>>

\* the summary printed only when something was deleted
SummaryUnlessNothing(p) ==
    /\ proc[p].pc = "summary"
    /\ Becomes(p, [proc[p] EXCEPT
                     !.out = IF proc[p].total = 0 THEN proc[p].out
                             ELSE proc[p].out \o SummaryLine(proc[p]),
                     !.pc  = "done"])

\* the statement after the `with` blocks
Summary(p) ==
    /\ proc[p].pc = "summary"
    /\ Becomes(p, [proc[p] EXCEPT !.out = proc[p].out \o SummaryLine(proc[p]),
                                  !.pc  = "done"])

(***************************************************************************)
(* The environment                                                         *)
(***************************************************************************)
\* Another party publishes a message to a sub-queue while some run is in
\* its loop on it, before or after a receive call of that run.
Produce(q) ==
    /\ published < MaxPublish
    /\ \E p \in Procs : proc[p].pc \in {"loop", "received"} /\ proc[p].sub_queue = q
    /\ queue' = [queue EXCEPT ![q] = queue[q] + 1]
    /\ published' = published + 1
    /\ UNCHANGED <<environ, installed, proc>>

\* The operator runs the same command again once the first run has ended
\* with its summary.
Rerun ==
    /\ proc["p1"].pc = "done"
    /\ proc["p2"].pc = "idle"
    /\ Becomes("p2", [proc["p2"] EXCEPT !.pc = "load", !.q0 = queue])

(***************************************************************************)
(* Specifications                                                          *)
(***************************************************************************)
\* the steps of a run once it has its client: the `with` blocks, the loop
\* and the summary line
Drain(p) ==
    \/ WithClient(p)
    \/ WithReceiver(p)
    \/ PurgeDlqStep(p)
    \/ PurgeActiveStep(p)
    \/ Count(p)
    \/ ExitReceiver(p)
    \/ ExitClient(p)
    \/ Summary(p)

Step(p) ==
    \/ LoadPurge(p)
    \/ LoadPurgeDlq(p)
    \/ Main(p)
    \/ Announce(p)
    \/ GetClient(p)
    \/ Drain(p)

\* A run that has its client goes on until it ends: the script is a process
\* of its own that nothing suspends, every statement of the `with` blocks
\* completes, and a receive call returns or raises when its max_wait_time
\* is over at the latest.
Fairness == \A p \in Procs : WF_vars(Drain(p))

Next == \E p \in Procs : Step(p)

\* one run, nobody else touches the queues
Spec == Init /\ [][Next]_vars

NextRerun == Next \/ Rerun

\* a run and then the same command again, nobody else touches the queues
SpecRerun == Init /\ [][NextRerun]_vars

NextProducer == Next \/ \E q \in SubQueues : Produce(q)

\* one run while other parties publish to the subscription
SpecProducer == Init /\ [][NextProducer]_vars


\* the sub-queue the command of a run drains
Target(r) == IF r.script = "purge" /\ r.argv.active THEN "ACTIVE" ELSE "DEAD_LETTER"

\* the commands that drain the sub-queue t: purge.py --active with or
\* without a limit for the active queue, either script for the dead letters
DrainCommands(t) ==
    IF t = "ACTIVE"
    THEN { [script |-> "purge", argv |-> [NoArgs EXCEPT !.active = TRUE, !.limit = l]] :
             l \in {NoInt} \cup Ints(1, MaxLimit) }
    ELSE { [script |-> script, argv |-> NoArgs] : script \in {"purge", "purge_dlq"} }

\* the pairs of commands, one order of each: the two runs are interchangeable
InOrder(c1, c2) ==
    /\ c1.script = "purge_dlq" => c2.script = "purge_dlq"
    /\ c2.argv.limit # NoInt =>
           c1.argv.limit # NoInt /\ c1.argv.limit[1] <= c2.argv.limit[1]

\* a complete SAS configuration with batch size b
DrainEnviron(b) ==
    [ SERVICE_BUS_CONNECTION_STR |-> ConnStrGood,
      SERVICE_BUS_NAMESPACE_FQDN |-> NsFqdn,
      SERVICE_BUS_NAMESPACE      |-> None,
      SERVICE_BUS_TOPIC          |-> TopicEnv,
      SERVICE_BUS_SUBSCRIPTION   |-> SubEnv,
      DLQ_BATCH                  |-> IntText(b),
      DLQ_WAIT                   |-> None ]

\* Two commands started together on the same subscription and sub-queue,
\* which holds MaxMsgs messages, over a complete SAS configuration; the
\* other sub-queue holds one message.
InitConcurrent ==
    /\ published = 0
    /\ installed = TRUE
    /\ \E t \in SubQueues, n \in {MaxMsgs}, b \in 1..MaxBatch :
         /\ environ = DrainEnviron(b)
         /\ queue = [q \in SubQueues |-> IF q = t THEN n ELSE 1]
         /\ \E c \in [Procs -> DrainCommands(t)] :
              /\ InOrder(c["p1"], c["p2"])
              /\ proc = [p \in Procs |->
                           [IdleProc(c[p].script, c[p].argv) EXCEPT
                               !.pc = "load",
                               !.q0 = [q \in SubQueues |-> IF q = t THEN n ELSE 1]]]

\* two runs side by side that go on until they end, nobody else touches
\* the queues
SpecConcurrent == InitConcurrent /\ [][Next]_vars /\ Fairness

\* One command that drains a sub-queue of up to MaxMsgs messages with a
\* batch size of at least 1, among them purge.py --active --limit 0, over a
\* complete SAS configuration; the other sub-queue holds one message.
InitDrain ==
    /\ published = 0
    /\ installed = TRUE
    /\ \E t \in SubQueues, n \in 0..MaxMsgs, b \in 1..MaxBatch :
         /\ environ = DrainEnviron(b)
         /\ queue = [q \in SubQueues |-> IF q = t THEN n ELSE 1]
         /\ \E c \in DrainCommands(t) \cup
                      { [script |-> "purge",
                         argv   |-> [NoArgs EXCEPT !.active = TRUE, !.limit = <<0>>]] } :
              /\ Target(IdleProc(c.script, c.argv)) = t
              /\ proc = [p \in Procs |->
                           IF p = "p1"
                           THEN [IdleProc(c.script, c.argv) EXCEPT !.pc = "load",
                                                                   !.q0 = queue]
                           ELSE IdleProc(c.script, c.argv)]

\* one run that goes on until it ends, while other parties publish at most
\* MaxPublish messages to the subscription
SpecDrainFair == InitDrain /\ [][NextProducer]_vars /\ Fairness

TypeOK ==
    /\ published \in 0..MaxPublish
    /\ \A q \in SubQueues : queue[q] \in 0..(MaxMsgs + MaxPublish)
    /\ \A p \in Procs : proc[p].total \in 0..(MaxMsgs + MaxPublish)

(***************************************************************************)
(* Vocabulary of the properties                                            *)
(***************************************************************************)
\* messages returned by the first n receive calls of a run
RECURSIVE Received(_, _)
Received(calls, n) == IF n = 0 THEN 0 ELSE Received(calls, n - 1) + calls[n].got

\* the run is a purge of the active queue with a limit L > 0
ActiveLimited(r) == r.sub_queue = "ACTIVE" /\ r.limit # NoInt /\ r.limit[1] > 0

\* the loop of the run was left by a break, not by an exception
Stopped(r) == r.stop # "none"

\* ceil(n / b) for b >= 1
CeilDiv(n, b) == (n + b - 1) \div b

\* C1: in a purge of the active queue with limit L > 0 and batch size >= 1,
\* whoever else publishes, the total never exceeds L; and once the loop has
\* stopped the total is L if no receive call came back empty, and also if
\* the queue held at least L messages when the run started.
C1_LimitBoundsTotal ==
    \A p \in Procs :
        LET r == proc[p] IN
        (ActiveLimited(r) /\ BATCH_SIZE >= 1) =>
            /\ r.total <= r.limit[1]
            /\ Received(r.calls, Len(r.calls)) <= r.limit[1]
            /\ (Stopped(r) /\ \A i \in 1..Len(r.calls) : r.calls[i].got > 0)
                   => r.total = r.limit[1]
            /\ (Stopped(r) /\ r.q0["ACTIVE"] >= r.limit[1])
                   => r.total = r.limit[1]

\* a limited run over more messages than its limit has ended; the limit cut
\* its last request below the batch size
C1_Witness ==
    LET r == proc["p1"] IN
    /\ r.pc = "done"
    /\ ActiveLimited(r)
    /\ r.q0["ACTIVE"] > r.limit[1]
    /\ Len(r.calls) >= 1
    /\ r.calls[Len(r.calls)].req < BATCH_SIZE
    /\ r.total = r.limit[1]

\* C2: in a purge of the active queue with --limit 0 no receive call is
\* issued and nothing is deleted, whatever the queue holds.
C2_LimitZeroDeletesNothing ==
    \A p \in Procs :
        LET r == proc[p] IN
        (r.sub_queue = "ACTIVE" /\ r.limit = <<0>>) =>
            /\ r.calls = <<>>
            /\ r.total = 0
            /\ queue["ACTIVE"] = r.q0["ACTIVE"]

\* C3: a purge of the dead-letter queue ignores a limit given on the
\* command line: every receive call asks for BATCH_SIZE messages, the loop
\* is only left after an empty batch, and a run that ends without an error
\* has deleted every message the dead-letter queue held.
C3_DlqIgnoresLimit ==
    \A p \in Procs :
        LET r == proc[p] IN
        r.sub_queue = "DEAD_LETTER" =>
            /\ \A i \in 1..Len(r.calls) : r.calls[i].req = BATCH_SIZE
            /\ Stopped(r) =>
                   /\ r.stop = "Exhausted"
                   /\ r.calls[Len(r.calls)].got = 0
                   /\ r.total = r.q0["DEAD_LETTER"]
                   /\ queue["DEAD_LETTER"] = 0
            /\ r.pc = "done" => Stopped(r)

\* purge.py without --active but with a limit below the number of messages
\* in the dead-letter queue has ended and deleted all of them
C3_Witness ==
    LET r == proc["p1"] IN
    /\ r.pc = "done"
    /\ r.script = "purge"
    /\ ~r.argv.active
    /\ r.argv.limit # NoInt
    /\ r.argv.limit[1] > 0
    /\ r.argv.limit[1] < r.q0["DEAD_LETTER"]
    /\ r.total = r.q0["DEAD_LETTER"]
    /\ r.total > BATCH_SIZE

\* C4 as stated: an unlimited purge of the active queue over N messages with
\* batch size B >= 1 has issued ceil(N/B) receive calls when it ends, and
\* deleted N messages.
C4_CeilCalls ==
    \A p \in Procs :
        LET r == proc[p]
            N == r.q0["ACTIVE"]
        IN  (r.pc = "done" /\ r.sub_queue = "ACTIVE" /\ r.limit = NoInt /\ BATCH_SIZE >= 1) =>
                /\ Len(r.calls) = CeilDiv(N, BATCH_SIZE)
                /\ r.total = N

\* C4 amended: the run issues ceil(N/B) + 1 receive calls, each asking for
\* B: the first N div B return B messages, the next returns the remainder
\* if there is one, and the last returns an empty batch; N are deleted.
C4_CeilCallsThenEmpty ==
    \A p \in Procs :
        LET r == proc[p]
            N == r.q0["ACTIVE"]
            B == BATCH_SIZE
        IN  (r.pc = "done" /\ r.sub_queue = "ACTIVE" /\ r.limit = NoInt /\ B >= 1) =>
                /\ Len(r.calls) = CeilDiv(N, B) + 1
                /\ \A i \in 1..Len(r.calls) : r.calls[i].req = B
                /\ \A i \in 1..(N \div B) : r.calls[i].got = B
                /\ N % B # 0 => r.calls[CeilDiv(N, B)].got = N % B
                /\ r.calls[Len(r.calls)].got = 0
                /\ r.total = N
                /\ queue["ACTIVE"] = 0

\* an unlimited purge of the active queue has ended after a full batch, a
\* remainder and an empty batch
C4_Witness ==
    LET r == proc["p1"] IN
    /\ r.pc = "done"
    /\ r.sub_queue = "ACTIVE"
    /\ r.limit = NoInt
    /\ BATCH_SIZE >= 2
    /\ r.q0["ACTIVE"] > BATCH_SIZE
    /\ r.q0["ACTIVE"] % BATCH_SIZE # 0
    /\ Len(r.calls) = 3
    /\ r.total = r.q0["ACTIVE"]

\* C5: in a purge of the active queue with limit L > 0 over N > L messages
\* no receive call is issued once L messages have been received, and a run
\* that ends has left the loop because the limit was reached, has deleted
\* exactly L and has left the other N - L in the queue.
C5_StopsAtLimit ==
    \A p \in Procs :
        LET r == proc[p]
            N == r.q0["ACTIVE"]
        IN  (ActiveLimited(r) /\ N > r.limit[1] /\ BATCH_SIZE >= 1) =>
                /\ \A i \in 1..Len(r.calls) : Received(r.calls, i - 1) < r.limit[1]
                /\ Stopped(r) =>
                       /\ r.stop = "LimitReached"
                       /\ r.total = r.limit[1]
                       /\ queue["ACTIVE"] = N - r.limit[1]
                /\ r.pc = "done" => Stopped(r)

\* a limited run has ended with messages left in the queue, after more than
\* one receive call
C5_Witness ==
    LET r == proc["p1"] IN
    /\ r.pc = "done"
    /\ ActiveLimited(r)
    /\ r.stop = "LimitReached"
    /\ Len(r.calls) >= 2
    /\ r.total = r.limit[1]
    /\ queue["ACTIVE"] > 0
    /\ queue["ACTIVE"] = r.q0["ACTIVE"] - r.limit[1]

\* C6: a run that follows a run whose loop was left on an empty batch, with
\* nothing published in between, issues one receive call, gets an empty
\* batch and deletes nothing; and a purge of an empty dead-letter queue is
\* over after its first receive call, with nothing deleted.
C6_ExhaustionIdempotent ==
    /\ proc["p1"].stop = "Exhausted" =>
           LET r == proc["p2"] IN
           /\ r.total = 0
           /\ Len(r.calls) <= 1
           /\ r.pc # "idle" => r.q0 = queue
           /\ Stopped(r) =>
                  /\ r.stop = "Exhausted"
                  /\ Len(r.calls) = 1
                  /\ r.calls[1].got = 0
           /\ r.pc = "done" => Stopped(r)
    /\ \A p \in Procs :
           LET r == proc[p] IN
           (r.sub_queue = "DEAD_LETTER" /\ r.q0["DEAD_LETTER"] = 0) =>
               /\ r.total = 0
               /\ Len(r.calls) <= 1
               /\ Stopped(r) => r.stop = "Exhausted" /\ Len(r.calls) = 1

\* the second run has ended after one empty receive call, after a first
\* run that deleted messages until the queue was empty
C6_Witness ==
    /\ proc["p1"].pc = "done"
    /\ proc["p1"].stop = "Exhausted"
    /\ proc["p1"].total > 0
    /\ proc["p2"].pc = "done"
    /\ proc["p2"].stop = "Exhausted"
    /\ Len(proc["p2"].calls) = 1
    /\ proc["p2"].total = 0

\* "endpoint=" occurs nowhere in s, in any letter case
NoEndpointIn(s) ==
    \A i \in 1..Len(s) :
        Lower(SubSeq(s, i, Min(Len(s), i + Len(EndpointKey) - 1))) # EndpointKey

\* C7: when a connection string is configured, whatever the namespace
\* setting, the label comes from the connection string, the client is a SAS
\* client, to_fqdn is not called and no credential is built.
C7_ConnStrPrecedence ==
    \A p \in Procs :
        LET r == proc[p] IN
        Truthy(SERVICE_BUS_CONNECTION_STR) =>
            /\ ~r.fqdn_used
            /\ r.credentials = <<>>
            /\ r.auth \in {"none", "SAS"}
            /\ r.client # "none" => r.auth = "SAS"
            /\ r.ns # None =>
                   r.ns = extract_namespace_from_connstr(SERVICE_BUS_CONNECTION_STR).val

\* a run with both a connection string and a namespace configured has
\* drained as a SAS client
C7_Witness ==
    LET r == proc["p1"] IN
    /\ r.pc = "done"
    /\ Truthy(SERVICE_BUS_CONNECTION_STR)
    /\ Truthy(SERVICE_BUS_NAMESPACE_FQDN)
    /\ r.auth = "SAS"
    /\ r.total > 0

\* C8: with a connection string that has no Endpoint= segment no client is
\* built, no receiver is opened and no receive call is issued, in either
\* mode; the run that gets as far as namespace_label fails there with the
\* ValueError of extract_namespace_from_connstr.
C8_NoEndpointFailsEarly ==
    \A p \in Procs :
        LET r == proc[p] IN
        (Truthy(SERVICE_BUS_CONNECTION_STR) /\ NoEndpointIn(SERVICE_BUS_CONNECTION_STR)) =>
            /\ r.client = "none"
            /\ r.receiver = "none"
            /\ r.calls = <<>>
            /\ r.auth = "none"
            /\ r.pc # "idle" => queue = r.q0
            /\ r.pc \in {"idle", "load", "main", "purge", "failed"}
            /\ (r.pc = "failed" /\ r.sub_queue # "none") => r.exc = "ValueError"

\* purge.py --active has failed on a connection string without Endpoint=
C8_Witness ==
    LET r == proc["p1"] IN
    /\ r.pc = "failed"
    /\ r.exc = "ValueError"
    /\ r.sub_queue = "ACTIVE"
    /\ SERVICE_BUS_CONNECTION_STR = ConnStrNoEndpoint
    /\ r.client = "none"

\* the exceptions of a fatal configuration
ConfigErrors ==
    {"SystemExit:topic", "SystemExit:subscription", "SystemExit:namespace",
     "SystemExit:identity", "ImportError"}

\* the configuration is fatal for the run: no topic, no subscription, no
\* connection string and no namespace, or no connection string and no
\* identity package
FatalConfig(r) ==
    \/ ~Truthy(Or(r.argv.topic, ENV_TOPIC))
    \/ ~Truthy(Or(r.argv.subscription, ENV_SUBSCRIPTION))
    \/ /\ ~Truthy(SERVICE_BUS_CONNECTION_STR)
       /\ \/ ~installed
          \/ ~Truthy(Strip(Or(SERVICE_BUS_NAMESPACE_FQDN, <<>>)))

\* C9: a run with a fatal configuration never builds a client, never opens
\* a receiver and never issues a receive call, and ends with one of the
\* configuration errors; and a run that ended with one of them has deleted
\* nothing.
C9_FatalConfigBeforeReceive ==
    \A p \in Procs :
        LET r == proc[p] IN
        /\ FatalConfig(r) =>
               /\ r.client = "none"
               /\ r.receiver = "none"
               /\ r.pc \in {"idle", "load", "main", "purge", "get_client", "failed"}
               /\ r.pc = "failed" => r.exc \in ConfigErrors
        /\ (r.pc = "failed" /\ r.exc \in ConfigErrors) =>
               /\ r.calls = <<>>
               /\ r.total = 0
               /\ r.receiver = "none"
               /\ queue = r.q0

\* purge.py has failed for want of a subscription although a topic and a
\* connection string are configured and the queues hold messages
C9_Witness ==
    LET r == proc["p1"] IN
    /\ r.pc = "failed"
    /\ r.exc = "SystemExit:subscription"
    /\ r.script = "purge"
    /\ Truthy(SERVICE_BUS_CONNECTION_STR)
    /\ queue["DEAD_LETTER"] > 0

\* C10: with a batch size that is not positive no client is built, no
\* receiver is opened, no receive call is issued and the run does not end
\* with a summary.
C10_NonPositiveBatchRejected ==
    \A p \in Procs :
        LET r == proc[p] IN
        BATCH_SIZE <= 0 =>
            /\ r.client = "none"
            /\ r.receiver = "none"
            /\ r.calls = <<>>
            /\ r.pc # "done"

\* the run has ended: with its summary or with an exception
Terminal(r) == r.pc \in {"done", "failed"}

\* the kinds of the lines the run has printed, in order
Kinds(out) == [i \in 1..Len(out) |-> out[i].line]

\* the positions of the lines of one kind
LinesOf(out, kind) == {i \in 1..Len(out) : out[i].line = kind}

\* C11: the receiver is never open while the client is not, so it is closed
\* before the client; once the function has left its `with` blocks, by a
\* break or by an exception of a receive call or of opening the receiver,
\* neither the client nor the receiver is open, and both are closed if the
\* client was ever entered.
C11_ReleasedOnEveryExit ==
    \A p \in Procs :
        LET r == proc[p] IN
        /\ r.receiver = "open" => r.client = "open"
        /\ r.client = "closed" => r.receiver = "closed"
        /\ r.pc \in {"summary", "done"} => r.client = "closed" /\ r.receiver = "closed"
        /\ Terminal(r) => r.client # "open" /\ r.receiver # "open"
        /\ (r.pc = "failed" /\ r.exc = "ServiceBusError") =>
               r.client = "closed" /\ r.receiver = "closed"

\* a run has failed on a receive call that followed a counted batch, and
\* both resources are closed
C11_Witness ==
    LET r == proc["p1"] IN
    /\ r.pc = "failed"
    /\ r.exc = "ServiceBusError"
    /\ Len(r.calls) >= 2
    /\ ~r.calls[Len(r.calls)].ok
    /\ r.client = "closed"
    /\ r.receiver = "closed"

\* C12: on the identity path the first credential tried is the
\* non-interactive one; when it fails the interactive one is tried, once;
\* the interactive one is only tried after the other failed; and a run only
\* fails for want of a credential after both were tried.
C12_OneInteractiveFallback ==
    \A p \in Procs :
        LET r == proc[p] IN
        /\ Len(r.credentials) <= 2
        /\ r.credentials # <<>> => r.credentials[1] = "DefaultAzureCredential"
        /\ Len(r.credentials) = 2 => r.credentials[2] = "InteractiveBrowserCredential"
        /\ r.auth = "AAD:DefaultAzureCredential" => Len(r.credentials) = 1
        /\ r.auth = "AAD:InteractiveBrowserCredential" => Len(r.credentials) = 2
        /\ (r.pc = "failed" /\ r.exc = "CredentialError") => Len(r.credentials) = 2

\* C13: a receive call that raised is the last receive call of the run; the
\* run is on its way out with that exception, has counted nothing for the
\* call and prints no summary line.
C13_ReceiveErrorAborts ==
    \A p \in Procs :
        LET r == proc[p] IN
        \A i \in 1..Len(r.calls) :
            ~r.calls[i].ok =>
                /\ i = Len(r.calls)
                /\ r.pc \in {"exit_receiver", "exit_client", "failed"}
                /\ r.exc \in {"ServiceBusError", "ValueError"}
                /\ r.stop = "none"
                /\ r.total = Received(r.calls, i - 1)
                /\ LinesOf(r.out, "summary") = {}

\* a run has failed on its third receive call, after two counted batches
C13_Witness ==
    LET r == proc["p1"] IN
    /\ r.pc = "failed"
    /\ r.exc = "ServiceBusError"
    /\ Len(r.calls) = 3
    /\ r.calls[1].ok /\ r.calls[2].ok /\ ~r.calls[3].ok
    /\ r.total > 0
    /\ LinesOf(r.out, "summary") = {}

\* the run is in its loop, before or after a receive call
Draining(r) == r.pc \in {"loop", "received"}

\* the messages of a batch that a receive call has returned to the run and
\* that the loop has not added to its total yet
Uncounted(r) == IF r.pc = "received" THEN r.msgs ELSE 0

\* two runs drain the same sub-queue: every message that left it was
\* returned to one receive call of one run, each run has counted what its
\* own calls returned but for the batch it holds, a limited run has received
\* no more than its limit, the two totals add up to what left the sub-queue
\* whenever neither run holds a batch it has not counted, and the other
\* sub-queue is untouched
C14_Safe ==
    LET r1 == proc["p1"]
        r2 == proc["p2"]
        t  == Target(r1)
    IN  /\ Target(r2) = t
        /\ Received(r1.calls, Len(r1.calls)) + Received(r2.calls, Len(r2.calls))
               = r1.q0[t] - queue[t]
        /\ \A q \in SubQueues \ {t} : queue[q] = r1.q0[q]
        /\ \A p \in Procs :
             LET r == proc[p] IN
             /\ r.total + Uncounted(r) = Received(r.calls, Len(r.calls))
             /\ ActiveLimited(r) =>
                    /\ Received(r.calls, Len(r.calls)) <= r.limit[1]
                    /\ r.total <= r.limit[1]
             /\ Terminal(r) => Uncounted(r) = 0
        /\ (\A p \in Procs : Uncounted(proc[p]) = 0) =>
               r1.total + r2.total = r1.q0[t] - queue[t]

\* C14: two drains running side by side on the same sub-queue: under every
\* interleaving of their receive calls and counts no message is returned to
\* both or counted twice, the two totals add up to the messages that left
\* the queue once each run has counted the batch it holds, so when both
\* have ended, a limited drain stays within its own limit, and each run
\* that is in its loop ends.
C14_ConcurrentDrainsSafe ==
    /\ []C14_Safe
    /\ \A p \in Procs : Draining(proc[p]) ~> Terminal(proc[p])

\* both runs have ended with their summary, each has deleted some of the
\* messages and one more than the other
C14_Witness ==
    /\ \A p \in Procs : proc[p].pc = "done" /\ proc[p].total > 0
    /\ queue[Target(proc["p1"])] = 0
    /\ proc["p1"].total # proc["p2"].total

\* C15: a run whose loop was left by a break ends with exactly one summary
\* line, its last line, printed when the receiver and the client are
\* closed, and the count of that line is what the receive calls of the run
\* returned, which is what has left the queue; no other run prints one.
C15_OneSummaryAfterRelease ==
    \A p \in Procs :
        LET r == proc[p] IN
        /\ (Terminal(r) /\ Stopped(r)) => r.pc = "done"
        /\ r.pc = "done" =>
               /\ Cardinality(LinesOf(r.out, "summary")) = 1
               /\ r.out[Len(r.out)].line = "summary"
               /\ r.out[Len(r.out)].n = Received(r.calls, Len(r.calls))
               /\ r.out[Len(r.out)].n = r.q0[r.sub_queue] - queue[r.sub_queue]
        /\ LinesOf(r.out, "summary") # {} =>
               /\ r.pc = "done"
               /\ r.exc = "none"
               /\ r.client = "closed"
               /\ r.receiver = "closed"

\* a run that found nothing has printed its summary line, with the count 0
C15_Witness ==
    LET r == proc["p1"] IN
    /\ r.pc = "done"
    /\ r.stop = "Exhausted"
    /\ r.q0[r.sub_queue] = 0
    /\ r.client = "closed"
    /\ r.out[Len(r.out)].line = "summary"
    /\ r.out[Len(r.out)].n = 0

\* C16: the i-th receive call of a drain of the active queue asks for
\* min(BATCH_SIZE, limit - deleted so far) when --limit was given and for
\* BATCH_SIZE when it was not, so for at least 1, at most BATCH_SIZE and,
\* under a limit, at most what is left of the limit.
C16_RequestSize ==
    \A p \in Procs :
        LET r == proc[p] IN
        r.sub_queue = "ACTIVE" =>
            \A i \in 1..Len(r.calls) :
                LET sofar == Received(r.calls, i - 1)
                    req   == r.calls[i].req
                IN  /\ req = IF r.limit # NoInt
                             THEN Min(BATCH_SIZE, r.limit[1] - sofar)
                             ELSE BATCH_SIZE
                    /\ req >= 1
                    /\ req <= BATCH_SIZE
                    /\ r.limit # NoInt => req <= r.limit[1] - sofar

\* the run has no limit to reach: it drains the dead letters, or the active
\* queue with no --limit or with the --limit 0 that the loop takes as none
Unlimited(r) ==
    r.sub_queue = "DEAD_LETTER" \/ (r.sub_queue = "ACTIVE" /\ ~TruthyInt(r.limit))

\* with a batch size of at least 1 a loop is only left by a break for the
\* limit or for an empty batch, and a loop with no limit only for an empty
\* batch, returned by its last receive call
C17_StopsForLimitOrEmpty ==
    \A p \in Procs :
        LET r == proc[p] IN
        (BATCH_SIZE >= 1 /\ Stopped(r)) =>
            /\ r.stop \in {"LimitReached", "Exhausted"}
            /\ r.stop = "LimitReached" => ~Unlimited(r)
            /\ r.stop = "Exhausted" =>
                   /\ r.calls # <<>>
                   /\ r.calls[Len(r.calls)].ok
                   /\ r.calls[Len(r.calls)].got = 0

\* a drain with no limit stays in its loop as long as its receive calls
\* find messages: no step of a run without a limit that is at the head of
\* its loop over a queue that is not empty, or that holds a batch that is
\* not empty, leaves the loop, unless a receive call raises
C17_KeptInLoop ==
    \A p \in Procs :
        LET r == proc[p] IN
        ( /\ Unlimited(r) /\ BATCH_SIZE >= 1
          /\ proc'[p] # r
          /\ proc'[p].exc = "none"
          /\ \/ r.pc = "loop" /\ queue[r.sub_queue] > 0
             \/ r.pc = "received" /\ r.msgs > 0 )
        => Draining(proc'[p])

\* C17: with a batch size of at least 1, a run that is in its loop ends once
\* nobody publishes any more: it ends with an exception of a receive call,
\* or its loop is left because the limit was reached or because a receive
\* call returned an empty batch, and a loop with no limit only by the empty
\* batch.  The run makes at most one receive call more than the queue held
\* messages when nobody publishes; every message somebody publishes can buy
\* the loop another turn, and a run with no limit does not leave the loop
\* while its receive calls find messages.
C17_DrainTerminates ==
    /\ [](C17_StopsForLimitOrEmpty /\
          \A p \in Procs :
              proc[p].sub_queue \in SubQueues =>
                  Len(proc[p].calls) <= proc[p].q0[proc[p].sub_queue] + published + 1)
    /\ [][C17_KeptInLoop]_vars
    /\ \A p \in Procs :
           (Draining(proc[p]) /\ BATCH_SIZE >= 1) ~>
               /\ Terminal(proc[p])
               /\ proc[p].exc = "none" => proc[p].stop \in {"LimitReached", "Exhausted"}

\* an unlimited drain of the active queue has ended after a receive call
\* for every message the queue held, one more for every message published
\* meanwhile, and a last one that came back empty
C17_Witness ==
    LET r == proc["p1"] IN
    /\ r.pc = "done"
    /\ r.sub_queue = "ACTIVE"
    /\ r.limit = NoInt
    /\ r.stop = "Exhausted"
    /\ published = MaxPublish
    /\ r.q0["ACTIVE"] >= 2
    /\ Len(r.calls) = r.q0["ACTIVE"] + MaxPublish + 1
    /\ r.total = r.q0["ACTIVE"] + MaxPublish

\* C18: when a receive call raises after the run has counted k > 0
\* messages, the last progress line the run printed reports k.
C18_PartialCountLogged ==
    \A p \in Procs :
        LET r        == proc[p]
            progress == LinesOf(r.out, "progress")
        IN  (r.calls # <<>> /\ ~r.calls[Len(r.calls)].ok /\ r.total > 0) =>
                /\ progress # {}
                /\ r.out[CHOOSE i \in progress : \A j \in progress : j <= i].n = r.total

\* the identity package is missing or the run has failed for want of it
AuthUnavailable(r) == r.exc \in {"ImportError", "SystemExit:identity"}

\* C19: with a connection string the run never fails for want of the
\* identity package and authenticates by SAS; without a connection string
\* and without the package a run with topic, subscription and namespace
\* fails for want of the package before a client is built.
C19_IdentityOnlyWhenNeeded ==
    \A p \in Procs :
        LET r == proc[p] IN
        /\ Truthy(SERVICE_BUS_CONNECTION_STR) =>
               /\ ~AuthUnavailable(r)
               /\ r.auth \in {"none", "SAS"}
        /\ (~Truthy(SERVICE_BUS_CONNECTION_STR) /\ ~installed) =>
               /\ r.client = "none"
               /\ r.calls = <<>>
               /\ Terminal(r) => r.pc = "failed"
               /\ Terminal(r) => AuthUnavailable(r) \/ r.exc \in ConfigErrors

\* C20 as stated: while no other party touches the subscription, in every
\* state what a run has counted and what is left in the sub-queue it drains
\* add up to what that sub-queue held when the run started, and the other
\* sub-queue is as it was: a drain of the dead letters, the default, leaves
\* the active queue alone, and a drain of the active queue the dead letters.
C20_AccountingAndFrame ==
    \A p \in Procs :
        LET r == proc[p] IN
        r.pc # "idle" =>
            /\ r.sub_queue = "none" => queue = r.q0 /\ r.total = 0
            /\ r.sub_queue # "none" =>
                   /\ r.sub_queue = Target(r)
                   /\ r.total + queue[r.sub_queue] = r.q0[r.sub_queue]
            /\ \A q \in SubQueues \ {Target(r)} : queue[q] = r.q0[q]

\* C20 amended: in every state what the run has counted, the batch a
\* receive call has returned and the loop has not counted yet, and what is
\* left in the sub-queue it drains add up to what that sub-queue held when
\* the run started; so the count and what is left add up to it whenever the
\* run is not between the return of a receive call and the count of its
\* batch.  The other sub-queue is as it was.
C20_AccountingWithBatchInHand ==
    \A p \in Procs :
        LET r == proc[p] IN
        r.pc # "idle" =>
            /\ r.sub_queue = "none" => queue = r.q0 /\ r.total = 0
            /\ r.sub_queue # "none" =>
                   /\ r.sub_queue = Target(r)
                   /\ r.total + Uncounted(r) + queue[r.sub_queue] = r.q0[r.sub_queue]
                   /\ r.pc # "received" =>
                          r.total + queue[r.sub_queue] = r.q0[r.sub_queue]
            /\ \A q \in SubQueues \ {Target(r)} : queue[q] = r.q0[q]

\* a default run holds the second batch of dead letters, not counted yet,
\* and the active queue still holds its messages
C20_Witness ==
    LET r == proc["p1"] IN
    /\ ~r.argv.active
    /\ r.pc = "received"
    /\ r.msgs > 0
    /\ r.total > 0
    /\ r.total + queue["DEAD_LETTER"] < r.q0["DEAD_LETTER"]
    /\ queue["ACTIVE"] = MaxMsgs

====
